---- MODULE Spec2Model ----
(***************************************************************************)
(* Model of the bounded-retry transform-and-validate loop of the           *)
(* migration agent: create_and_validate_dockerfile_node and the tools it   *)
(* calls (read_dockerfile, is_multi_stage_dockerfile,                      *)
(* write_dockerfile_argo), with the transformer (LLM), the file system     *)
(* and the validator (docker buildx bake) as nondeterministic              *)
(* collaborators.                                                          *)
(***************************************************************************)
EXTENDS Integers, Sequences, FiniteSets, TLC

(***************************************************************************)
(* Bounds                                                                  *)
(***************************************************************************)
\* largest retry budget the caller passes in
MaxRetriesBound == 2
\* longest text, in lines, given to is_multi_stage_dockerfile on its own
MaxLines == 3

(***************************************************************************)
(* Optional values: Python's None and a present value                      *)
(***************************************************************************)
None == <<>>
Some(v) == <<v>>
Val(o) == o[1]
\* truthiness of an optional string
Truthy(o) == o # None /\ Val(o) # ""
\* truthiness of an optional path
PathSet(o) == o # None

(***************************************************************************)
(* Text: a build description is a sequence of lines, a line a sequence of  *)
(* characters                                                              *)
(***************************************************************************)
LFrom == <<"F", "R", "O", "M", " ", "a">>
LFromLower == <<" ", "f", "r", "o", "m", " ", "b">>
LComment == <<"#", " ", "F", "R", "O", "M", " ", "c">>
LBlank == <<" ">>
LRun == <<"R", "U", "N">>
LFromage == <<"F", "R", "O", "M", "A", "G", "E">>

SingleStage == <<LFrom, LComment, LRun>>
MultiStage == <<LFrom, LBlank, LRun, LFromLower>>
MultiStageFixed == <<LFrom, LRun, LFrom, LRun>>
Texts == {SingleStage, MultiStage, MultiStageFixed}

IsSpace(c) == c = " "

RECURSIVE LStrip(_)
LStrip(s) == IF s # <<>> /\ IsSpace(Head(s)) THEN LStrip(Tail(s)) ELSE s

RECURSIVE RStrip(_)
RStrip(s) ==
    IF s # <<>> /\ IsSpace(s[Len(s)]) THEN RStrip(SubSeq(s, 1, Len(s) - 1)) ELSE s

\* str.strip()
Strip(s) == RStrip(LStrip(s))

UpperChar(c) ==
    CASE c = "f" -> "F"
      [] c = "r" -> "R"
      [] c = "o" -> "O"
      [] c = "m" -> "M"
      [] c = "a" -> "A"
      [] c = "b" -> "B"
      [] c = "c" -> "C"
      [] OTHER -> c

\* str.upper()
Upper(s) == [i \in 1..Len(s) |-> UpperChar(s[i])]

\* str.startswith(prefix)
StartsWith(s, prefix) ==
    Len(s) >= Len(prefix) /\ SubSeq(s, 1, Len(prefix)) = prefix

KeywordFROM == <<"F", "R", "O", "M">>

\* the lines counted by is_multi_stage_dockerfile
CountsAsFrom(line) ==
    LET stripped == Strip(line)
    IN  /\ stripped # <<>>
        /\ ~StartsWith(stripped, <<"#">>)
        /\ StartsWith(Upper(stripped), KeywordFROM)

RECURSIVE from_count(_)
from_count(lines) ==
    IF lines = <<>> THEN 0
    ELSE (IF CountsAsFrom(Head(lines)) THEN 1 ELSE 0) + from_count(Tail(lines))

is_multi_stage_dockerfile(dockerfile_content) == from_count(dockerfile_content) > 1

(***************************************************************************)
(* Files: the bytes of a text file are its lines and its line terminator   *)
(* (LF, or CRLF when crlf is set)                                          *)
(***************************************************************************)
FileBytes(text, crlf) == [text |-> text, crlf |-> crlf]

\* Path.read_text: universal newlines, a CRLF is read as "\n"
read_text(bytes) == bytes.text

\* Path.write_text: "\n" is written as os.linesep, LF on POSIX
write_text(text) == FileBytes(text, FALSE)

(***************************************************************************)
(* Paths relative to the clone root: a parent directory and a file name;   *)
(* a file name is a sequence of tokens, "." being the extension separator  *)
(***************************************************************************)
Dot == "."
ArgoMarker == "-argo"
Path(parent, name) == [parent |-> parent, name |-> name]

RECURSIVE LastDot(_)
\* str.rfind('.') on the name, 0 when there is no dot
LastDot(name) ==
    IF name = <<>> THEN 0
    ELSE IF name[Len(name)] = Dot THEN Len(name)
    ELSE LastDot(SubSeq(name, 1, Len(name) - 1))

\* pathlib's PurePath.suffix: from the last dot, unless the dot leads or ends the name
PathSuffix(name) ==
    LET i == LastDot(name)
    IN  IF 1 < i /\ i < Len(name) THEN SubSeq(name, i, Len(name)) ELSE <<>>

\* pathlib's PurePath.stem
PathStem(name) ==
    LET i == LastDot(name)
    IN  IF 1 < i /\ i < Len(name) THEN SubSeq(name, 1, i - 1) ELSE name

\* the -argo name built inline on the pass-through path
ArgoName(name) ==
    IF PathSuffix(name) # <<>>
    THEN PathStem(name) \o <<ArgoMarker>> \o PathSuffix(name)
    ELSE name \o <<ArgoMarker>>

\* the derived path of the pass-through path, relative to the clone root
PassThroughArgoPath(p) == Path(p.parent, ArgoName(p.name))

\* the path write_dockerfile_argo writes: the fixed name in the same directory
WriteArgoPath(p) == Path(p.parent, <<"Dockerfile", ArgoMarker>>)

(***************************************************************************)
(* Inputs                                                                  *)
(***************************************************************************)
RootDockerfile == Path(".", <<"Dockerfile">>)
SubFooTxt == Path("a", <<"Foo", Dot, "txt">>)
SubFoo == Path("a", <<"Foo">>)
\* an original that already carries the name write_dockerfile_argo uses
RootDockerfileArgo == Path(".", <<"Dockerfile", ArgoMarker>>)
OrigPaths == {RootDockerfile, SubFooTxt, SubFoo, RootDockerfileArgo}
AllPaths == OrigPaths \cup {PassThroughArgoPath(p) : p \in OrigPaths}
                      \cup {WriteArgoPath(p) : p \in OrigPaths}

ExplicitBakeFile == Path("ci", <<"docker-bake", Dot, "hcl">>)
\* the conventional bake file next to the derived variant
DefaultBakeFile(argo) == Path(argo.parent, <<"docker-argo-bake", Dot, "hcl">>)

\* max_retries values a caller passes to run_agent (None: the key is unset)
MaxRetriesInputs == {None} \cup {Some(n) : n \in -1..MaxRetriesBound}

\* captured output of the validator
StderrTexts == {"", "E"}
StdoutTexts == {"", "O"}
TimeoutMessage == "Dockerfile validation timed out after 5 minutes"
NotFoundMessage == "Docker buildx not found. Please ensure Docker is installed and buildx is available."
UnexpectedMessage == "Unexpected error during validation: e"
BakeMissingMessage == "Docker bake file not found"

(***************************************************************************)
(* State                                                                   *)
(***************************************************************************)
VARIABLES
    state,                      \* the AgentState fields the node reads and writes
    files,                      \* the clone: path -> None (absent) or Some(bytes)
    pc,                         \* position in create_and_validate_dockerfile_node
    retry_count,                \* local retry_count
    max_retries,                \* local max_retries
    validation_error,           \* local validation_error
    full_dockerfile_path,       \* local full_dockerfile_path (relative to the clone root)
    dockerfile_content,         \* local dockerfile_content
    updated_dockerfile_content, \* local updated_dockerfile_content
    bake_file_path,             \* local bake_file_path
    outcome,                    \* which return statement ended the node
    files0,                     \* the clone as it was when the node was entered
    state0,                     \* the AgentState as it was when the node was entered
    run_result,                 \* what the last subprocess.run call produced
    fn,                         \* argument and result of a tool function applied on its own
    wf,                         \* the compiled workflow: next node, nodes run, status
    attempts,                   \* loop iterations started
    validator_calls,            \* subprocess.run invocations
    validator_fails,            \* validations that did not exit with code 0
    transformer_calls,          \* convert_dockerfile_to_multi_stage invocations
    passthroughs,               \* verbatim copies made
    att                         \* what the current iteration has done so far

vars == <<state, files, pc, retry_count, max_retries, validation_error,
          full_dockerfile_path, dockerfile_content, updated_dockerfile_content,
          bake_file_path, outcome, files0, state0, run_result, fn, wf,
          attempts, validator_calls,
          validator_fails, transformer_calls, passthroughs, att>>

locals == <<retry_count, max_retries, validation_error, full_dockerfile_path,
            dockerfile_content, updated_dockerfile_content, bake_file_path>>
counters == <<validator_calls, validator_fails, transformer_calls, passthroughs>>
\* what no step of the node changes
frozen == <<files0, state0, fn, wf>>

\* the record of one loop iteration, empty at its start
NewAttempt(n) ==
    [index |-> n, read |-> None, copied |-> FALSE, transformed |-> FALSE,
     transform_raised |-> FALSE, prior_error |-> None, returned |-> None,
     wrote |-> None, wrote_text |-> None, spec_found |-> None,
     spec_checked |-> {},
     validated |-> FALSE]

\* the initial state run_agent builds, after the upstream nodes have filled in their fields
InitialState(clone, dpath, platform, bake, count, maxr, err) ==
    [clone_path |-> clone,
     dockerfile_path |-> dpath,
     build_platform |-> platform,
     docker_bake_file_path |-> bake,
     dockerfile_updated |-> None,
     dockerfile_validation_passed |-> None,
     error |-> err,
     dockerfile_argo_path |-> None,
     dockerfile_validation_retry_count |-> count,
     dockerfile_validation_max_retries |-> maxr,
     dockerfile_validation_error |-> None]

InitWith(RetryCountInputs) ==
    /\ \E clone \in {None, Some("/repo")},
          dpath \in {None} \cup {Some(p) : p \in OrigPaths},
          platform \in {None, Some(""), Some("java-gradle")},
          bake \in {None, Some(ExplicitBakeFile)},
          count \in RetryCountInputs,
          maxr \in MaxRetriesInputs,
          err \in {None, Some("No dockerfile_path available")},
          bytes \in {None} \cup {Some(FileBytes(t, c)) : t \in Texts, c \in BOOLEAN} :
        /\ state = InitialState(clone, dpath, platform, bake, count, maxr, err)
        /\ files = [p \in AllPaths |->
                        IF dpath # None /\ p = Val(dpath) THEN bytes ELSE None]
    /\ files0 = files
    /\ state0 = state
    /\ run_result = None
    /\ fn = None
    /\ wf = None
    /\ pc = "start"
    /\ retry_count = 0
    /\ max_retries = 0
    /\ validation_error = None
    /\ full_dockerfile_path = None
    /\ dockerfile_content = None
    /\ updated_dockerfile_content = None
    /\ bake_file_path = None
    /\ outcome = "running"
    /\ attempts = 0
    /\ validator_calls = 0
    /\ validator_fails = 0
    /\ transformer_calls = 0
    /\ passthroughs = 0
    /\ att = NewAttempt(0)

\* run_agent leaves dockerfile_validation_retry_count unset
Init == InitWith({None})

(***************************************************************************)
(* create_and_validate_dockerfile_node, up to the loop                     *)
(***************************************************************************)
\* a return statement: the node ends with the given state
Return(s, how) ==
    /\ state' = s
    /\ pc' = "done"
    /\ outcome' = how

WithDefaults(s) ==
    [s EXCEPT !.dockerfile_validation_retry_count =
                  IF @ = None THEN Some(0) ELSE @,
              !.dockerfile_validation_max_retries =
                  IF @ = None THEN Some(2) ELSE @]

\* the skip that also reports an error
SkippedWithError(s) ==
    Return([s EXCEPT !.dockerfile_updated = Some(FALSE),
                     !.dockerfile_validation_passed = Some(FALSE),
                     !.error = Some("No build_platform found")],
           "noop")

\* no build_platform: the update is skipped
Skipped(s) ==
    Return([s EXCEPT !.dockerfile_updated = Some(FALSE),
                     !.dockerfile_validation_passed = Some(FALSE)],
           "noop")

\* the precondition return that leaves the error field alone
PreconditionFailedSilently(s, message) ==
    Return([s EXCEPT !.dockerfile_updated = Some(FALSE),
                     !.dockerfile_validation_passed = Some(FALSE)],
           "precondition")

\* no clone_path or no dockerfile_path: the error is recorded
PreconditionFailed(s, message) ==
    Return([s EXCEPT !.dockerfile_updated = Some(FALSE),
                     !.dockerfile_validation_passed = Some(FALSE),
                     !.error = Some(message)],
           "precondition")

NodeEntry ==
    /\ pc = "start"
    /\ LET s == WithDefaults(state)
       IN  /\ max_retries' = Val(s.dockerfile_validation_max_retries)
           /\ IF ~Truthy(s.build_platform)
              THEN /\ Skipped(s)
                   /\ UNCHANGED <<retry_count, validation_error>>
              ELSE IF ~Truthy(s.clone_path)
              THEN /\ PreconditionFailed(s, "No clone path available for Dockerfile update")
                   /\ UNCHANGED <<retry_count, validation_error>>
              ELSE IF ~PathSet(s.dockerfile_path)
              THEN /\ PreconditionFailed(s, "No Dockerfile path found")
                   /\ UNCHANGED <<retry_count, validation_error>>
              ELSE /\ state' = s
                   /\ retry_count' = Val(s.dockerfile_validation_retry_count)
                   /\ validation_error' = None
                   /\ pc' = "loop"
                   /\ UNCHANGED outcome
    /\ UNCHANGED <<files, frozen, run_result, full_dockerfile_path, dockerfile_content,
                   updated_dockerfile_content, bake_file_path, attempts,
                   counters, att>>

(***************************************************************************)
(* The retry loop                                                          *)
(***************************************************************************)
\* the while condition with the bound taken as a number of attempts
LoopConditionStrict(count, maxr) == count < maxr

\* the while condition
LoopCondition(count, maxr) == count <= maxr

\* while retry_count <= max_retries: a new iteration starts
LoopEnter ==
    /\ pc = "loop"
    /\ LoopCondition(retry_count, max_retries)
    /\ pc' = "read"
    /\ attempts' = attempts + 1
    /\ att' = NewAttempt(attempts + 1)
    /\ UNCHANGED <<state, files, frozen, run_result, locals, outcome, counters>>

\* leaving the loop reported as a success
LoopExitPassed ==
    /\ pc = "loop"
    /\ ~LoopCondition(retry_count, max_retries)
    /\ Return([state EXCEPT !.dockerfile_validation_passed = Some(TRUE)],
              "fallthrough")
    /\ UNCHANGED <<files, frozen, run_result, locals, attempts, counters, att>>

\* the loop condition is false: the statements after the loop
LoopExit ==
    /\ pc = "loop"
    /\ ~LoopCondition(retry_count, max_retries)
    /\ Return([state EXCEPT !.dockerfile_validation_passed = Some(FALSE)],
              "fallthrough")
    /\ UNCHANGED <<files, frozen, run_result, locals, attempts, counters, att>>

\* Step 1: the file an iteration reads (relative to the clone root)
ReadTarget ==
    IF retry_count > 0 /\ Truthy(validation_error)
    THEN IF PathSet(state.dockerfile_argo_path)
         THEN Val(state.dockerfile_argo_path)
         ELSE Val(state.dockerfile_path)
    ELSE Val(state.dockerfile_path)

\* read_dockerfile: None when the file does not exist, its text otherwise
read_dockerfile(p) ==
    IF files[p] = None THEN None ELSE Some(read_text(Val(files[p])))

Fatal(message) ==
    Return([state EXCEPT !.dockerfile_updated = Some(FALSE),
                         !.dockerfile_validation_passed = Some(FALSE),
                         !.error = Some(message)],
           "fatal")

\* the file exists and is read
ReadOk ==
    /\ pc = "read"
    /\ read_dockerfile(ReadTarget) # None
    /\ full_dockerfile_path' = Some(ReadTarget)
    /\ dockerfile_content' = read_dockerfile(ReadTarget)
    /\ att' = [att EXCEPT !.read = Some(ReadTarget)]
    /\ pc' = "check"
    /\ UNCHANGED <<state, files, frozen, run_result, retry_count, max_retries,
                   validation_error, updated_dockerfile_content,
                   bake_file_path, outcome, attempts, counters>>

\* an absent file taken as an empty text
ReadAbsentAsEmpty ==
    /\ pc = "read"
    /\ read_dockerfile(ReadTarget) = None
    /\ full_dockerfile_path' = Some(ReadTarget)
    /\ dockerfile_content' = Some(<<>>)
    /\ att' = [att EXCEPT !.read = Some(ReadTarget)]
    /\ pc' = "check"
    /\ UNCHANGED <<state, files, frozen, run_result, retry_count, max_retries,
                   validation_error, updated_dockerfile_content,
                   bake_file_path, outcome, attempts, counters>>

\* read_dockerfile returns None
ReadAbsent ==
    /\ pc = "read"
    /\ read_dockerfile(ReadTarget) = None
    /\ full_dockerfile_path' = Some(ReadTarget)
    /\ dockerfile_content' = None
    /\ att' = [att EXCEPT !.read = Some(ReadTarget)]
    /\ Fatal("Dockerfile not found")
    /\ UNCHANGED <<files, frozen, run_result, retry_count, max_retries, validation_error,
                   updated_dockerfile_content, bake_file_path, attempts,
                   counters>>

\* read_text raises (the file exists but cannot be read)
ReadError ==
    /\ pc = "read"
    /\ files[ReadTarget] # None
    /\ full_dockerfile_path' = Some(ReadTarget)
    /\ att' = [att EXCEPT !.read = Some(ReadTarget)]
    /\ Fatal("Failed to read Dockerfile")
    /\ UNCHANGED <<files, frozen, run_result, retry_count, max_retries, validation_error,
                   dockerfile_content, updated_dockerfile_content,
                   bake_file_path, attempts, counters>>

\* the pass-through condition without the first-attempt test
PassThroughConditionAnyAttempt ==
    /\ is_multi_stage_dockerfile(Val(dockerfile_content))
    /\ ~Truthy(validation_error)

\* Step 2: the condition of the pass-through (verbatim copy) branch
PassThroughCondition ==
    /\ retry_count = 0
    /\ is_multi_stage_dockerfile(Val(dockerfile_content))
    /\ ~Truthy(validation_error)

\* the already multi-stage content is copied to the -argo file
PassThroughCopy ==
    /\ pc = "check"
    /\ PassThroughCondition
    /\ LET dockerfile_argo_path_str == PassThroughArgoPath(Val(state.dockerfile_path))
       IN  /\ files' = [files EXCEPT ![dockerfile_argo_path_str] =
                                        Some(write_text(Val(dockerfile_content)))]
           /\ state' = [state EXCEPT !.dockerfile_argo_path = Some(dockerfile_argo_path_str),
                                     !.dockerfile_updated = Some(TRUE)]
           /\ att' = [att EXCEPT !.copied = TRUE,
                                 !.wrote = Some(dockerfile_argo_path_str),
                                 !.wrote_text = dockerfile_content]
    /\ passthroughs' = passthroughs + 1
    /\ pc' = "resolve"
    /\ UNCHANGED <<frozen, run_result, locals, outcome, attempts, validator_calls,
                   validator_fails, transformer_calls>>

\* writing the copy raises
PassThroughWriteError ==
    /\ pc = "check"
    /\ PassThroughCondition
    /\ Fatal("Failed to create Dockerfile-argo")
    /\ UNCHANGED <<files, frozen, run_result, locals, attempts, counters, att>>

\* the transformer called without the validation error
TransformReturnNoErrorContext ==
    /\ pc = "check"
    /\ ~PassThroughCondition
    /\ \E text \in Texts :
        /\ updated_dockerfile_content' = Some(text)
        /\ att' = [att EXCEPT !.transformed = TRUE,
                              !.prior_error = None,
                              !.returned = Some(text)]
    /\ transformer_calls' = transformer_calls + 1
    /\ pc' = "persist"
    /\ UNCHANGED <<state, files, frozen, run_result, retry_count, max_retries,
                   validation_error, full_dockerfile_path, dockerfile_content,
                   bake_file_path, outcome, attempts, validator_calls,
                   validator_fails, passthroughs>>

\* Step 3: convert_dockerfile_to_multi_stage returns a text
TransformReturn ==
    /\ pc = "check"
    /\ ~PassThroughCondition
    /\ \E text \in Texts :
        /\ updated_dockerfile_content' = Some(text)
        /\ att' = [att EXCEPT !.transformed = TRUE,
                              !.prior_error = validation_error,
                              !.returned = Some(text)]
    /\ transformer_calls' = transformer_calls + 1
    /\ pc' = "persist"
    /\ UNCHANGED <<state, files, frozen, run_result, retry_count, max_retries,
                   validation_error, full_dockerfile_path, dockerfile_content,
                   bake_file_path, outcome, attempts, validator_calls,
                   validator_fails, passthroughs>>

\* a transformer error taken as one more failed attempt
TransformRaiseRetried ==
    /\ pc = "check"
    /\ ~PassThroughCondition
    /\ att' = [att EXCEPT !.transformed = TRUE,
                          !.transform_raised = TRUE,
                          !.prior_error = validation_error]
    /\ transformer_calls' = transformer_calls + 1
    /\ validation_error' = Some("Failed to convert Dockerfile using LLM")
    /\ retry_count' = retry_count + 1
    /\ state' = [state EXCEPT !.dockerfile_validation_passed = Some(FALSE),
                              !.error = Some("Failed to convert Dockerfile using LLM")]
    /\ pc' = "loop"
    /\ UNCHANGED <<files, frozen, run_result, max_retries, full_dockerfile_path,
                   dockerfile_content, updated_dockerfile_content,
                   bake_file_path, outcome, attempts, validator_calls,
                   validator_fails, passthroughs>>

\* convert_dockerfile_to_multi_stage raises
TransformRaise ==
    /\ pc = "check"
    /\ ~PassThroughCondition
    /\ att' = [att EXCEPT !.transformed = TRUE,
                          !.transform_raised = TRUE,
                          !.prior_error = validation_error]
    /\ transformer_calls' = transformer_calls + 1
    /\ Fatal("Failed to convert Dockerfile using LLM")
    /\ UNCHANGED <<files, frozen, run_result, locals, attempts, validator_calls,
                   validator_fails, passthroughs>>

\* Step 4: where the transformed text is written
WriteTarget ==
    IF retry_count > 0 /\ Truthy(validation_error)
    THEN Val(full_dockerfile_path)
    ELSE WriteArgoPath(Val(full_dockerfile_path))

\* a write that stores the text read instead of the text returned
PersistOkWritesInput ==
    /\ pc = "persist"
    /\ files' = [files EXCEPT ![WriteTarget] =
                            Some(write_text(Val(dockerfile_content)))]
    /\ state' = [state EXCEPT !.dockerfile_argo_path = Some(WriteTarget),
                              !.dockerfile_updated = Some(TRUE)]
    /\ att' = [att EXCEPT !.wrote = Some(WriteTarget),
                          !.wrote_text = dockerfile_content]
    /\ pc' = "resolve"
    /\ UNCHANGED <<frozen, run_result, locals, outcome, attempts, counters>>

\* the transformed text is written to the -argo file
PersistOk ==
    /\ pc = "persist"
    /\ files' = [files EXCEPT ![WriteTarget] =
                            Some(write_text(Val(updated_dockerfile_content)))]
    /\ state' = [state EXCEPT !.dockerfile_argo_path = Some(WriteTarget),
                              !.dockerfile_updated = Some(TRUE)]
    /\ att' = [att EXCEPT !.wrote = Some(WriteTarget),
                          !.wrote_text = updated_dockerfile_content]
    /\ pc' = "resolve"
    /\ UNCHANGED <<frozen, run_result, locals, outcome, attempts, counters>>

\* writing the transformed text raises
PersistError ==
    /\ pc = "persist"
    /\ Fatal("Failed to write Dockerfile-argo")
    /\ UNCHANGED <<files, frozen, run_result, locals, attempts, counters, att>>

\* the bake file taken from the conventional place only
BakeFilePathDefaultOnly == DefaultBakeFile(Val(state.dockerfile_argo_path))

\* Step 5: the bake file the validator is given
BakeFilePath ==
    IF PathSet(state.docker_bake_file_path)
    THEN Val(state.docker_bake_file_path)
    ELSE DefaultBakeFile(Val(state.dockerfile_argo_path))

\* the bake file exists
ResolveBakeFound ==
    /\ pc = "resolve"
    /\ PathSet(state.dockerfile_argo_path)
    /\ bake_file_path' = Some(BakeFilePath)
    /\ att' = [att EXCEPT !.spec_found = Some(TRUE),
                          !.spec_checked = @ \cup {BakeFilePath}]
    /\ pc' = "validate"
    /\ UNCHANGED <<state, files, frozen, run_result, retry_count, max_retries,
                   validation_error, full_dockerfile_path, dockerfile_content,
                   updated_dockerfile_content, outcome, attempts, counters>>

\* a missing bake file taken as one more failed attempt
ResolveBakeMissingRetried ==
    /\ pc = "resolve"
    /\ PathSet(state.dockerfile_argo_path)
    /\ bake_file_path' = Some(BakeFilePath)
    /\ att' = [att EXCEPT !.spec_found = Some(FALSE),
                          !.spec_checked = @ \cup {BakeFilePath}]
    /\ validation_error' = Some(BakeMissingMessage)
    /\ retry_count' = retry_count + 1
    /\ state' = [state EXCEPT !.dockerfile_validation_passed = Some(FALSE),
                              !.dockerfile_validation_error = Some(BakeMissingMessage)]
    /\ pc' = "loop"
    /\ UNCHANGED <<files, frozen, run_result, max_retries, full_dockerfile_path,
                   dockerfile_content, updated_dockerfile_content, outcome,
                   attempts, counters>>

\* a missing bake file reported like a failed write
ResolveBakeMissingAsError ==
    /\ pc = "resolve"
    /\ IF ~PathSet(state.dockerfile_argo_path)
       THEN /\ Return([state EXCEPT !.dockerfile_validation_passed = Some(FALSE),
                                    !.dockerfile_validation_error =
                                        Some("No Dockerfile-argo path found for validation")],
                      "no_argo_path")
            /\ UNCHANGED <<bake_file_path, att>>
       ELSE /\ bake_file_path' = Some(BakeFilePath)
            /\ att' = [att EXCEPT !.spec_found = Some(FALSE),
                                  !.spec_checked = @ \cup {BakeFilePath}]
            /\ Return([state EXCEPT !.dockerfile_updated = Some(FALSE),
                                    !.dockerfile_validation_passed = Some(FALSE),
                                    !.error = Some(BakeMissingMessage)],
                      "spec_missing")
    /\ UNCHANGED <<files, frozen, run_result, retry_count, max_retries, validation_error,
                   full_dockerfile_path, dockerfile_content,
                   updated_dockerfile_content, attempts, counters>>

\* no -argo path, or the bake file does not exist: the node returns
ResolveBakeMissing ==
    /\ pc = "resolve"
    /\ IF ~PathSet(state.dockerfile_argo_path)
       THEN /\ Return([state EXCEPT !.dockerfile_validation_passed = Some(FALSE),
                                    !.dockerfile_validation_error =
                                        Some("No Dockerfile-argo path found for validation")],
                      "no_argo_path")
            /\ UNCHANGED <<bake_file_path, att>>
       ELSE /\ bake_file_path' = Some(BakeFilePath)
            /\ att' = [att EXCEPT !.spec_found = Some(FALSE),
                                  !.spec_checked = @ \cup {BakeFilePath}]
            /\ Return([state EXCEPT !.dockerfile_validation_passed = Some(FALSE),
                                    !.dockerfile_validation_error = Some(BakeMissingMessage)],
                      "spec_missing")
    /\ UNCHANGED <<files, frozen, run_result, retry_count, max_retries, validation_error,
                   full_dockerfile_path, dockerfile_content,
                   updated_dockerfile_content, attempts, counters>>

\* subprocess.run returned: the CompletedProcess
Completed(returncode, stderr, stdout) ==
    [kind |-> "completed", returncode |-> returncode,
     stderr |-> stderr, stdout |-> stdout]

\* subprocess.run raised
Raised(exception) ==
    [kind |-> exception, returncode |-> -1, stderr |-> "", stdout |-> ""]

\* the retry decision giving up one failure early
ExhaustedAtBound(count, maxr) == count >= maxr

\* the retry decision after a failed validation
Exhausted(count, maxr) == count > maxr

\* a failed validation that stores the count before incrementing it
ValidationFailedStaleCount(diagnostic) ==
    /\ validation_error' = Some(diagnostic)
    /\ retry_count' = retry_count + 1
    /\ validator_calls' = validator_calls + 1
    /\ validator_fails' = validator_fails + 1
    /\ att' = [att EXCEPT !.validated = TRUE]
    /\ LET s == [state EXCEPT !.dockerfile_validation_retry_count = Some(retry_count),
                              !.dockerfile_validation_error = Some(diagnostic)]
       IN  IF Exhausted(retry_count + 1, max_retries)
           THEN Return([s EXCEPT !.dockerfile_validation_passed = Some(FALSE)],
                       "exhausted")
           ELSE /\ state' = s
                /\ pc' = "loop"
                /\ UNCHANGED outcome
    /\ UNCHANGED <<files, frozen, max_retries, full_dockerfile_path,
                   dockerfile_content, updated_dockerfile_content,
                   bake_file_path, attempts, transformer_calls, passthroughs>>

\* a failed validation that does not store its diagnostic in the state
ValidationFailedDropsDiagnostic(diagnostic) ==
    /\ validation_error' = Some(diagnostic)
    /\ retry_count' = retry_count + 1
    /\ validator_calls' = validator_calls + 1
    /\ validator_fails' = validator_fails + 1
    /\ att' = [att EXCEPT !.validated = TRUE]
    /\ LET s == [state EXCEPT !.dockerfile_validation_retry_count = Some(retry_count + 1)]
       IN  IF Exhausted(retry_count + 1, max_retries)
           THEN Return([s EXCEPT !.dockerfile_validation_passed = Some(FALSE)],
                       "exhausted")
           ELSE /\ state' = s
                /\ pc' = "loop"
                /\ UNCHANGED outcome
    /\ UNCHANGED <<files, frozen, max_retries, full_dockerfile_path,
                   dockerfile_content, updated_dockerfile_content,
                   bake_file_path, attempts, transformer_calls, passthroughs>>

\* a failed validation: count it, keep its diagnostic, retry or give up
ValidationFailed(diagnostic) ==
    /\ validation_error' = Some(diagnostic)
    /\ retry_count' = retry_count + 1
    /\ validator_calls' = validator_calls + 1
    /\ validator_fails' = validator_fails + 1
    /\ att' = [att EXCEPT !.validated = TRUE]
    /\ LET s == [state EXCEPT !.dockerfile_validation_retry_count = Some(retry_count + 1),
                              !.dockerfile_validation_error = Some(diagnostic)]
       IN  IF Exhausted(retry_count + 1, max_retries)
           THEN Return([s EXCEPT !.dockerfile_validation_passed = Some(FALSE)],
                       "exhausted")
           ELSE /\ state' = s
                /\ pc' = "loop"
                /\ UNCHANGED outcome
    /\ UNCHANGED <<files, frozen, max_retries, full_dockerfile_path,
                   dockerfile_content, updated_dockerfile_content,
                   bake_file_path, attempts, transformer_calls, passthroughs>>

\* a passed validation that counts itself as one more attempt
ValidatorPassCountsAttempt ==
    /\ pc = "validate"
    /\ \E stderr \in StderrTexts, stdout \in StdoutTexts :
        run_result' = Some(Completed(0, stderr, stdout))
    /\ validator_calls' = validator_calls + 1
    /\ att' = [att EXCEPT !.validated = TRUE]
    /\ Return([state EXCEPT !.dockerfile_validation_passed = Some(TRUE),
                            !.dockerfile_validation_error = None,
                            !.dockerfile_validation_retry_count = Some(retry_count + 1)],
              "passed")
    /\ UNCHANGED <<files, frozen, locals, attempts, validator_fails,
                   transformer_calls, passthroughs>>

\* docker buildx bake exits with code 0
ValidatorPass ==
    /\ pc = "validate"
    /\ \E stderr \in StderrTexts, stdout \in StdoutTexts :
        run_result' = Some(Completed(0, stderr, stdout))
    /\ validator_calls' = validator_calls + 1
    /\ att' = [att EXCEPT !.validated = TRUE]
    /\ Return([state EXCEPT !.dockerfile_validation_passed = Some(TRUE),
                            !.dockerfile_validation_error = None,
                            !.dockerfile_validation_retry_count = Some(retry_count)],
              "passed")
    /\ UNCHANGED <<files, frozen, locals, attempts, validator_fails,
                   transformer_calls, passthroughs>>

\* a non-zero exit whose diagnostic prefers the standard output
ValidatorFailStdoutFirst ==
    /\ pc = "validate"
    /\ \E stderr \in StderrTexts, stdout \in StdoutTexts :
        /\ run_result' = Some(Completed(1, stderr, stdout))
        /\ ValidationFailed(IF stdout # "" THEN stdout ELSE stderr)

\* docker buildx bake exits with a non-zero code
ValidatorFail ==
    /\ pc = "validate"
    /\ \E stderr \in StderrTexts, stdout \in StdoutTexts :
        /\ run_result' = Some(Completed(1, stderr, stdout))
        /\ ValidationFailed(IF stderr # "" THEN stderr ELSE stdout)

\* a timeout taken as a fatal error
ValidatorTimeoutFatal ==
    /\ pc = "validate"
    /\ run_result' = Some(Raised("TimeoutExpired"))
    /\ validator_calls' = validator_calls + 1
    /\ att' = [att EXCEPT !.validated = TRUE]
    /\ Fatal(TimeoutMessage)
    /\ UNCHANGED <<files, frozen, locals, attempts, validator_fails,
                   transformer_calls, passthroughs>>

\* a timeout that is retried without being counted
ValidatorTimeoutNotCounted ==
    /\ pc = "validate"
    /\ validator_calls <= MaxRetriesBound + 2
    /\ run_result' = Some(Raised("TimeoutExpired"))
    /\ validation_error' = Some(TimeoutMessage)
    /\ validator_calls' = validator_calls + 1
    /\ validator_fails' = validator_fails + 1
    /\ att' = [att EXCEPT !.validated = TRUE]
    /\ state' = [state EXCEPT !.dockerfile_validation_error = Some(TimeoutMessage)]
    /\ pc' = "loop"
    /\ UNCHANGED <<files, frozen, retry_count, max_retries, full_dockerfile_path,
                   dockerfile_content, updated_dockerfile_content,
                   bake_file_path, outcome, attempts, transformer_calls,
                   passthroughs>>

\* subprocess.TimeoutExpired
ValidatorTimeout ==
    /\ pc = "validate"
    /\ run_result' = Some(Raised("TimeoutExpired"))
    /\ ValidationFailed(TimeoutMessage)

\* FileNotFoundError: no docker executable
ValidatorNotFound ==
    /\ pc = "validate"
    /\ run_result' = Some(Raised("FileNotFoundError"))
    /\ ValidationFailed(NotFoundMessage)

\* an unexpected exception taken as a fatal error
ValidatorExceptionFatal ==
    /\ pc = "validate"
    /\ run_result' = Some(Raised("Exception"))
    /\ validator_calls' = validator_calls + 1
    /\ att' = [att EXCEPT !.validated = TRUE]
    /\ Fatal(UnexpectedMessage)
    /\ UNCHANGED <<files, frozen, locals, attempts, validator_fails,
                   transformer_calls, passthroughs>>

\* any other exception from subprocess.run
ValidatorException ==
    /\ pc = "validate"
    /\ run_result' = Some(Raised("Exception"))
    /\ ValidationFailed(UnexpectedMessage)

Next ==
    \/ NodeEntry
    \/ LoopEnter
    \/ LoopExit
    \/ ReadOk
    \/ ReadAbsent
    \/ ReadError
    \/ PassThroughCopy
    \/ PassThroughWriteError
    \/ TransformReturn
    \/ TransformRaise
    \/ PersistOk
    \/ PersistError
    \/ ResolveBakeFound
    \/ ResolveBakeMissing
    \/ ValidatorPass
    \/ ValidatorFail
    \/ ValidatorTimeout
    \/ ValidatorNotFound
    \/ ValidatorException

Spec == Init /\ [][Next]_vars

\* every call the node makes returns or raises, so the node always takes
\* its next step
SpecLive == Init /\ [][Next]_vars /\ WF_vars(Next)

(***************************************************************************)
(* is_multi_stage_dockerfile applied on its own to every short text        *)
(***************************************************************************)
LEmpty == <<>>
LFromBare == <<"F", "R", "O", "M">>
ShapeLines == {LFrom, LFromLower, LFromBare, LFromage, LComment, LBlank, LEmpty, LRun}

\* the result of str.split('\n'): at least one line
RECURSIVE TextsOfLength(_)
TextsOfLength(n) ==
    IF n = 0 THEN {<<>>}
    ELSE {Append(t, l) : t \in TextsOfLength(n - 1), l \in ShapeLines}

ShapeInputs == UNION {TextsOfLength(n) : n \in 1..MaxLines}

InitShape ==
    /\ fn \in {[input |-> t, from_count |-> None, output |-> None] : t \in ShapeInputs}
    /\ pc = "shape"
    /\ state = InitialState(None, None, None, None, None, None, None)
    /\ files = [p \in AllPaths |-> None]
    /\ files0 = files
    /\ state0 = state
    /\ run_result = None
    /\ wf = None
    /\ retry_count = 0
    /\ max_retries = 0
    /\ validation_error = None
    /\ full_dockerfile_path = None
    /\ dockerfile_content = None
    /\ updated_dockerfile_content = None
    /\ bake_file_path = None
    /\ outcome = "running"
    /\ attempts = 0
    /\ validator_calls = 0
    /\ validator_fails = 0
    /\ transformer_calls = 0
    /\ passthroughs = 0
    /\ att = NewAttempt(0)

\* one call of is_multi_stage_dockerfile
InspectShape ==
    /\ pc = "shape"
    /\ fn' = [fn EXCEPT !.from_count = Some(from_count(fn.input)),
                        !.output = Some(is_multi_stage_dockerfile(fn.input))]
    /\ pc' = "shape_done"
    /\ UNCHANGED <<state, files, files0, state0, run_result, wf, locals, outcome,
                   attempts, counters, att>>

NextShape == InspectShape

SpecShape == InitShape /\ [][NextShape]_vars

(***************************************************************************)
(* The compiled workflow of create_workflow: the nodes and the routing     *)
(* functions of its conditional edges                                      *)
(***************************************************************************)
\* a repository URL: whether it is blank, whether urlparse accepts it, its
\* scheme, and whether it starts with "git@"
Url(blank, parses, scheme, git_at) ==
    [blank |-> blank, parses |-> parses, scheme |-> scheme, git_at |-> git_at]

UrlInputs ==
    {Url(TRUE, TRUE, "", FALSE), Url(FALSE, TRUE, "https", FALSE),
     Url(FALSE, TRUE, "ftp", FALSE), Url(FALSE, TRUE, "", TRUE),
     Url(FALSE, FALSE, "http", FALSE)}

\* validate_repository_url, for a URL urlparse accepts
validate_repository_url(repository_url) ==
    IF repository_url.blank
    THEN [valid |-> FALSE, message |-> "Repository URL cannot be empty"]
    ELSE IF repository_url.scheme = ""
    THEN [valid |-> FALSE, message |-> "Repository URL must include a scheme"]
    ELSE IF repository_url.scheme \notin {"http", "https", "git", "ssh"}
            /\ ~repository_url.git_at
    THEN [valid |-> FALSE, message |-> "Invalid URL scheme"]
    ELSE [valid |-> TRUE, message |-> "Repository URL is valid"]

\* should_continue, the routing after validate_url
should_continue(status) == IF status = "validated" THEN "clone" ELSE "end"

\* the routing after copy_dependencies that never skips the update
should_update_always(s) == "update_dockerfile"

\* should_update_dockerfile_after_deps, the routing after copy_dependencies
should_update_dockerfile_after_deps(s) ==
    IF Truthy(s.build_platform) THEN "update_dockerfile" ELSE "end"

\* the order in which add_edge and add_conditional_edges chain the nodes
WorkflowOrder ==
    <<"validate_url", "clone_repository", "analyze_repository",
      "copy_dependencies", "create_and_validate_dockerfile">>

\* the workflow before its entry point has run
NewWorkflow(url) ==
    [at |-> "validate_url", trace |-> <<>>, repository_url |-> url,
     status |-> "pending", status_after_validate |-> None,
     platform_after_deps |-> None]

\* the graph is invoked with the state run_agent builds, or with an input
\* state given to the exported graph
InitWorkflow ==
    /\ \E url \in UrlInputs,
          clone \in {None, Some("/old")},
          dpath \in {None, Some(RootDockerfile)},
          platform \in {None, Some("java-gradle")} :
        /\ wf = Some(NewWorkflow(url))
        /\ state = InitialState(clone, dpath, platform, None, None, Some(2), None)
    /\ files = [p \in AllPaths |-> None]
    /\ files0 = files
    /\ state0 = state
    /\ run_result = None
    /\ fn = None
    /\ pc = "idle"
    /\ retry_count = 0
    /\ max_retries = 0
    /\ validation_error = None
    /\ full_dockerfile_path = None
    /\ dockerfile_content = None
    /\ updated_dockerfile_content = None
    /\ bake_file_path = None
    /\ outcome = "running"
    /\ attempts = 0
    /\ validator_calls = 0
    /\ validator_fails = 0
    /\ transformer_calls = 0
    /\ passthroughs = 0
    /\ att = NewAttempt(0)

\* what a workflow step leaves alone: the locals and ghosts of the node
node_vars == <<files, files0, state0, run_result, fn, locals, attempts,
               counters, att>>

\* the node named n has run and the graph goes on to the node or END next
Ran(n, next) ==
    [Val(wf) EXCEPT !.at = next, !.trace = Append(@, n)]
\* validate_url_node, then the conditional edge should_continue; urlparse
\* raising ends the run (run_agent catches what invoke raises)
validate_url_node ==
    /\ wf # None /\ Val(wf).at = "validate_url"
    /\ LET url == Val(wf).repository_url
       IN  IF ~url.blank /\ ~url.parses
           THEN /\ wf' = Some(Ran("validate_url", "aborted"))
                /\ UNCHANGED state
           ELSE LET validation == validate_repository_url(url)
                    status == IF validation.valid THEN "validated" ELSE "error"
                    next == IF should_continue(status) = "clone"
                            THEN "clone_repository" ELSE "END"
                IN  /\ wf' = Some([Ran("validate_url", next) EXCEPT
                                     !.status = status,
                                     !.status_after_validate = Some(status)])
                    /\ state' = IF validation.valid THEN state
                                 ELSE [state EXCEPT !.error = Some(validation.message)]
    /\ UNCHANGED <<node_vars, pc, outcome>>

\* clone_repository_node, then the edge to analyze_repository
clone_repository_node ==
    /\ wf # None /\ Val(wf).at = "clone_repository"
    /\ \E success \in BOOLEAN :
        /\ wf' = Some([Ran("clone_repository", "analyze_repository") EXCEPT
                         !.status = IF success THEN "success" ELSE "error"])
        /\ state' = IF success
                     THEN [state EXCEPT !.clone_path = Some("/repo"), !.error = None]
                     ELSE [state EXCEPT !.error = Some("Failed to clone repository")]
    /\ UNCHANGED <<node_vars, pc, outcome>>

\* analyze_repository_node, then the edge to copy_dependencies
analyze_repository_node ==
    /\ wf # None /\ Val(wf).at = "analyze_repository"
    /\ wf' = Some(Ran("analyze_repository", "copy_dependencies"))
    /\ IF ~Truthy(state.clone_path)
       THEN state' = [state EXCEPT !.error = Some("No clone path available for analysis")]
       ELSE \/ state' = [state EXCEPT !.error = Some("ViaCBSfile not found in repository")]
            \/ state' = [state EXCEPT !.error = Some("Failed to read ViaCBSfile")]
            \/ \E bake \in {None, Some(ExplicitBakeFile)},
                  dpath \in {None} \cup {Some(p) : p \in OrigPaths},
                  platform \in {None, Some("java-gradle")} :
                    state' = [state EXCEPT
                                !.docker_bake_file_path = IF bake # None THEN bake ELSE @,
                                !.build_platform = platform,
                                !.dockerfile_path = dpath]
    /\ UNCHANGED <<node_vars, pc, outcome>>

\* copy_dependencies_node, then the conditional edge
\* should_update_dockerfile_after_deps
copy_dependencies_node ==
    /\ wf # None /\ Val(wf).at = "copy_dependencies"
    /\ \/ /\ ~Truthy(state.clone_path)
          /\ state' = [state EXCEPT !.error =
                            Some("No clone path available for copying dependencies")]
       \/ /\ Truthy(state.clone_path)
          /\ ~PathSet(state.dockerfile_path)
          /\ state' = [state EXCEPT !.error = Some("No dockerfile_path available")]
       \/ /\ Truthy(state.clone_path)
          /\ PathSet(state.dockerfile_path)
          /\ \/ state' = [state EXCEPT !.error = Some("Could not parse GitHub URL")]
             \/ state' = [state EXCEPT !.error = Some("Failed to copy GHA templates")]
             \/ state' = state
    /\ LET next == IF should_update_dockerfile_after_deps(state') = "update_dockerfile"
                   THEN "create_and_validate_dockerfile" ELSE "END"
       IN  wf' = Some([Ran("copy_dependencies", next) EXCEPT
                         !.platform_after_deps = Some(state'.build_platform)])
    /\ UNCHANGED <<node_vars, pc, outcome>>

\* create_and_validate_dockerfile_node as the graph sees it: it runs to one
\* of its return statements, assigns neither status nor build_platform, and
\* the edge after it leads to END
create_and_validate_dockerfile_node ==
    /\ wf # None /\ Val(wf).at = "create_and_validate_dockerfile"
    /\ wf' = Some(Ran("create_and_validate_dockerfile", "END"))
    /\ \E how \in {"noop", "precondition", "fatal", "spec_missing", "passed", "exhausted"} :
        /\ how = "noop" <=> ~Truthy(state.build_platform)
        /\ how = "precondition" =>
                (~Truthy(state.clone_path) \/ ~PathSet(state.dockerfile_path))
        /\ how \in {"fatal", "spec_missing", "passed", "exhausted"} =>
                (Truthy(state.clone_path) /\ PathSet(state.dockerfile_path))
        /\ outcome' = how
        /\ state' = [WithDefaults(state) EXCEPT
                        !.dockerfile_validation_passed = Some(how = "passed")]
    /\ pc' = "done"
    /\ UNCHANGED node_vars

NextWorkflow ==
    \/ validate_url_node
    \/ clone_repository_node
    \/ analyze_repository_node
    \/ copy_dependencies_node
    \/ create_and_validate_dockerfile_node

SpecWorkflow == InitWorkflow /\ [][NextWorkflow]_vars

(***************************************************************************)
(* should_retry_dockerfile_update applied on its own: the routing function *)
(* of the split update / validate loop                                     *)
(***************************************************************************)
\* dict.get(key, default): the default only when the key is not in the dict
Get(s, key, default) == IF key \in DOMAIN s THEN s[key] ELSE default

\* the keys should_retry_dockerfile_update reads
RetryKeys ==
    {"dockerfile_validation_passed", "dockerfile_validation_retry_count",
     "dockerfile_validation_max_retries"}

\* the values update_dockerfile_node and validate_dockerfile_node leave in
\* those keys: a flag that is None, False or True, and two integers
RetryStates ==
    {[k \in keys |-> full[k]] :
        keys \in SUBSET RetryKeys,
        full \in [dockerfile_validation_passed : {None, Some(FALSE), Some(TRUE)},
                  dockerfile_validation_retry_count :
                      {Some(n) : n \in 0..(MaxRetriesBound + 1)},
                  dockerfile_validation_max_retries :
                      {Some(n) : n \in -1..MaxRetriesBound}]}

\* the routing with the loop condition of the combined node
should_retry_within_budget(s) ==
    LET validation_passed == Get(s, "dockerfile_validation_passed", None)
        count == Val(Get(s, "dockerfile_validation_retry_count", Some(0)))
        maxr == Val(Get(s, "dockerfile_validation_max_retries", Some(2)))
    IN  IF validation_passed = Some(TRUE) THEN "end"
        ELSE IF count <= maxr THEN "update_dockerfile"
        ELSE "end"

\* should_retry_dockerfile_update
should_retry_dockerfile_update(s) ==
    LET validation_passed == Get(s, "dockerfile_validation_passed", None)
        count == Val(Get(s, "dockerfile_validation_retry_count", Some(0)))
        maxr == Val(Get(s, "dockerfile_validation_max_retries", Some(2)))
    IN  IF validation_passed = Some(TRUE) THEN "end"
        ELSE IF count < maxr THEN "update_dockerfile"
        ELSE "end"

InitRetryRoute ==
    /\ fn \in {Some([input |-> s, output |-> None]) : s \in RetryStates}
    /\ pc = "route"
    /\ wf = None
    /\ state = InitialState(None, None, None, None, None, None, None)
    /\ files = [p \in AllPaths |-> None]
    /\ files0 = files
    /\ state0 = state
    /\ run_result = None
    /\ retry_count = 0
    /\ max_retries = 0
    /\ validation_error = None
    /\ full_dockerfile_path = None
    /\ dockerfile_content = None
    /\ updated_dockerfile_content = None
    /\ bake_file_path = None
    /\ outcome = "running"
    /\ attempts = 0
    /\ validator_calls = 0
    /\ validator_fails = 0
    /\ transformer_calls = 0
    /\ passthroughs = 0
    /\ att = NewAttempt(0)

\* one call of should_retry_dockerfile_update
RouteRetry ==
    /\ pc = "route"
    /\ fn' = Some([Val(fn) EXCEPT
                    !.output = Some(should_retry_dockerfile_update(Val(fn).input))])
    /\ pc' = "route_done"
    /\ UNCHANGED <<state, files, files0, state0, run_result, wf, locals, outcome,
                   attempts, counters, att>>

NextRetryRoute == RouteRetry

SpecRetryRoute == InitRetryRoute /\ [][NextRetryRoute]_vars

(***************************************************************************)
(* create_and_validate_dockerfile_node entered with the state an earlier   *)
(* execution returned: dockerfile_validation_retry_count is an integer     *)
(***************************************************************************)
\* the counts an execution of the node leaves in the state
CarriedCounts == {Some(n) : n \in 0..(MaxRetriesBound + 1)}

InitCarry ==
    /\ InitWith({None} \cup CarriedCounts)
    /\ state.clone_path = Some("/repo")
    /\ state.build_platform = Some("java-gradle")
    /\ state.dockerfile_path = Some(RootDockerfile)
    /\ state.docker_bake_file_path = None
    /\ state.error = None

SpecCarry == InitCarry /\ [][Next]_vars

(***************************************************************************)
(* The split loop: update_dockerfile_node, then validate_dockerfile_node,  *)
(* then should_retry_dockerfile_update back to update_dockerfile_node or   *)
(* to the end. fn holds the validator outcomes seen so far.                *)
(***************************************************************************)
\* what subprocess.run can give validate_dockerfile_node
ValidatorOutcomes ==
    {Completed(rc, stderr, stdout) :
        rc \in {0, 1}, stderr \in StderrTexts, stdout \in StdoutTexts}
    \cup {Raised(x) : x \in {"TimeoutExpired", "FileNotFoundError", "Exception"}}

\* the diagnostic validate_dockerfile_node stores for a failed outcome
SplitDiagnostic(r) ==
    IF r.kind = "completed" THEN (IF r.stderr # "" THEN r.stderr ELSE r.stdout)
    ELSE IF r.kind = "TimeoutExpired" THEN TimeoutMessage
    ELSE IF r.kind = "FileNotFoundError" THEN NotFoundMessage
    ELSE UnexpectedMessage

InitSplit ==
    /\ \E clone \in {None, Some("/repo")},
          dpath \in {None, Some(RootDockerfile), Some(SubFooTxt)},
          platform \in {None, Some("java-gradle")},
          bake \in {None, Some(ExplicitBakeFile)},
          maxr \in MaxRetriesInputs,
          bytes \in {None} \cup {Some(FileBytes(t, FALSE)) : t \in Texts} :
        /\ state = InitialState(clone, dpath, platform, bake, None, maxr, None)
        /\ files = [p \in AllPaths |->
                        IF dpath # None /\ p = Val(dpath) THEN bytes ELSE None]
    /\ files0 = files
    /\ state0 = state
    /\ fn = Some([outcomes |-> <<>>])
    /\ wf = None
    /\ pc = "update_dockerfile"
    /\ run_result = None
    /\ retry_count = 0
    /\ max_retries = 0
    /\ validation_error = None
    /\ full_dockerfile_path = None
    /\ dockerfile_content = None
    /\ updated_dockerfile_content = None
    /\ bake_file_path = None
    /\ outcome = "running"
    /\ attempts = 0
    /\ validator_calls = 0
    /\ validator_fails = 0
    /\ transformer_calls = 0
    /\ passthroughs = 0
    /\ att = NewAttempt(0)

\* what the nodes of the split loop leave alone
split_unused == <<files0, state0, wf, locals, attempts, validator_fails,
                  transformer_calls, passthroughs, att>>

\* a node of the split loop returns the state s; how is "ok" unless the node
\* returned early
SplitReturn(s, next, how) ==
    /\ state' = s
    /\ pc' = next
    /\ outcome' = IF how = "ok" THEN outcome ELSE how

\* update_dockerfile_node: the count and the limit are set when they are None
SplitDefaults(s) ==
    [s EXCEPT !.dockerfile_validation_retry_count =
                  IF @ = None THEN Some(0) ELSE @,
              !.dockerfile_validation_max_retries =
                  IF @ = None THEN Some(2) ELSE @]

\* update_dockerfile_node: validation_error and retry_count > 0
SplitRetrying(s) ==
    /\ Truthy(s.dockerfile_validation_error)
    /\ Val(s.dockerfile_validation_retry_count) > 0

\* update_dockerfile_node: the file it reads
SplitReadTarget(s) ==
    IF SplitRetrying(s) /\ PathSet(s.dockerfile_argo_path)
    THEN Val(s.dockerfile_argo_path)
    ELSE Val(s.dockerfile_path)

\* update_dockerfile_node: the file it writes
SplitWriteTarget(s) ==
    IF SplitRetrying(s) THEN SplitReadTarget(s)
    ELSE WriteArgoPath(SplitReadTarget(s))

\* update_dockerfile_node has what it needs
SplitPreconditions(s) ==
    /\ Truthy(s.build_platform)
    /\ Truthy(s.clone_path)
    /\ PathSet(s.dockerfile_path)

\* update_dockerfile_node: no build_platform
UpdateSkipped ==
    /\ pc = "update_dockerfile"
    /\ ~Truthy(state.build_platform)
    /\ SplitReturn([SplitDefaults(state) EXCEPT !.dockerfile_updated = Some(FALSE)],
                   "validate_dockerfile", "skipped")
    /\ UNCHANGED <<files, fn, run_result, validator_calls, split_unused>>

\* update_dockerfile_node: no clone path or no dockerfile path
UpdatePreconditionFailed ==
    /\ pc = "update_dockerfile"
    /\ Truthy(state.build_platform)
    /\ ~SplitPreconditions(state)
    /\ SplitReturn([SplitDefaults(state) EXCEPT
                        !.dockerfile_updated = Some(FALSE),
                        !.error = IF ~Truthy(state.clone_path)
                                  THEN Some("No clone path available for Dockerfile update")
                                  ELSE Some("No Dockerfile path found")],
                   "validate_dockerfile", "fatal")
    /\ UNCHANGED <<files, fn, run_result, validator_calls, split_unused>>

\* update_dockerfile_node: the file is absent or reading it raises
UpdateReadFailed ==
    /\ pc = "update_dockerfile"
    /\ SplitPreconditions(state)
    /\ LET s == SplitDefaults(state)
       IN  \/ /\ read_dockerfile(SplitReadTarget(s)) = None
              /\ SplitReturn([s EXCEPT !.dockerfile_updated = Some(FALSE),
                                       !.error = Some("Dockerfile not found")],
                             "validate_dockerfile", "fatal")
           \/ SplitReturn([s EXCEPT !.dockerfile_updated = Some(FALSE),
                                    !.error = Some("Failed to read Dockerfile")],
                          "validate_dockerfile", "fatal")
    /\ UNCHANGED <<files, fn, run_result, validator_calls, split_unused>>

\* update_dockerfile_node: the text read, already multi-stage, no diagnostic
SplitPassThrough(s) ==
    /\ is_multi_stage_dockerfile(Val(read_dockerfile(SplitReadTarget(s))))
    /\ ~Truthy(s.dockerfile_validation_error)

\* update_dockerfile_node: already multi-stage, only the path is reported
UpdatePassThrough ==
    /\ pc = "update_dockerfile"
    /\ SplitPreconditions(state)
    /\ LET s == SplitDefaults(state)
       IN  /\ read_dockerfile(SplitReadTarget(s)) # None
           /\ SplitPassThrough(s)
           /\ SplitReturn([s EXCEPT !.dockerfile_updated = Some(TRUE),
                                    !.dockerfile_argo_path =
                                        Some(PassThroughArgoPath(Val(s.dockerfile_path)))],
                          "validate_dockerfile", "ok")
    /\ UNCHANGED <<files, fn, run_result, validator_calls, split_unused>>

\* update_dockerfile_node: the transformer or the write raises
UpdateFailed ==
    /\ pc = "update_dockerfile"
    /\ SplitPreconditions(state)
    /\ LET s == SplitDefaults(state)
       IN  /\ read_dockerfile(SplitReadTarget(s)) # None
           /\ ~SplitPassThrough(s)
           /\ \E message \in {"Failed to convert Dockerfile using LLM",
                              "Failed to write Dockerfile-argo"} :
                SplitReturn([s EXCEPT !.dockerfile_updated = Some(FALSE),
                                      !.error = Some(message)],
                            "validate_dockerfile", "fatal")
    /\ UNCHANGED <<files, fn, run_result, validator_calls, split_unused>>

\* update_dockerfile_node: the transformed text is written
UpdateWritten ==
    /\ pc = "update_dockerfile"
    /\ SplitPreconditions(state)
    /\ LET s == SplitDefaults(state)
       IN  /\ read_dockerfile(SplitReadTarget(s)) # None
           /\ ~SplitPassThrough(s)
           /\ \E text \in Texts :
                files' = [files EXCEPT ![SplitWriteTarget(s)] = Some(write_text(text))]
           /\ SplitReturn([s EXCEPT !.dockerfile_updated = Some(TRUE),
                                    !.dockerfile_argo_path = Some(SplitWriteTarget(s))],
                          "validate_dockerfile", "ok")
    /\ UNCHANGED <<fn, run_result, validator_calls, split_unused>>

\* validate_dockerfile_node: no clone path or no -argo path
ValidateNoPath ==
    /\ pc = "validate_dockerfile"
    /\ ~Truthy(state.clone_path) \/ ~PathSet(state.dockerfile_argo_path)
    /\ SplitReturn([state EXCEPT
                        !.dockerfile_validation_passed = Some(FALSE),
                        !.dockerfile_validation_error =
                            IF ~Truthy(state.clone_path)
                            THEN Some("No clone path available for Dockerfile validation")
                            ELSE Some("No Dockerfile-argo path found for validation")],
                   "route", "no_path")
    /\ UNCHANGED <<files, fn, run_result, validator_calls, split_unused>>

\* validate_dockerfile_node: the bake file does not exist
ValidateBakeMissing ==
    /\ pc = "validate_dockerfile"
    /\ Truthy(state.clone_path)
    /\ PathSet(state.dockerfile_argo_path)
    /\ SplitReturn([state EXCEPT
                        !.dockerfile_validation_passed = Some(FALSE),
                        !.dockerfile_validation_error = Some(BakeMissingMessage)],
                   "route", "no_bake_file")
    /\ UNCHANGED <<files, fn, run_result, validator_calls, split_unused>>

\* validate_dockerfile_node: docker buildx bake is run
ValidateRan ==
    /\ pc = "validate_dockerfile"
    /\ Truthy(state.clone_path)
    /\ PathSet(state.dockerfile_argo_path)
    /\ validator_calls <= MaxRetriesBound + 1
    /\ \E r \in ValidatorOutcomes :
        LET count == Val(Get(state, "dockerfile_validation_retry_count", Some(0)))
        IN  /\ run_result' = Some(r)
            /\ fn' = Some([outcomes |-> Append(Val(fn).outcomes, r)])
            /\ IF r.kind = "completed" /\ r.returncode = 0
               THEN SplitReturn([state EXCEPT
                                    !.dockerfile_validation_passed = Some(TRUE),
                                    !.dockerfile_validation_error = None,
                                    !.dockerfile_validation_retry_count = Some(count)],
                                "route", "ok")
               ELSE SplitReturn([state EXCEPT
                                    !.dockerfile_validation_passed = Some(FALSE),
                                    !.dockerfile_validation_error = Some(SplitDiagnostic(r)),
                                    !.dockerfile_validation_retry_count = Some(count + 1)],
                                "route", "ok")
    /\ validator_calls' = validator_calls + 1
    /\ UNCHANGED <<files, split_unused>>

\* the conditional edge after validate_dockerfile_node
RouteSplit ==
    /\ pc = "route"
    /\ pc' = should_retry_dockerfile_update(state)
    /\ UNCHANGED <<state, files, fn, run_result, outcome, validator_calls,
                   split_unused>>

NextSplit ==
    \/ UpdateSkipped
    \/ UpdatePreconditionFailed
    \/ UpdateReadFailed
    \/ UpdatePassThrough
    \/ UpdateFailed
    \/ UpdateWritten
    \/ ValidateNoPath
    \/ ValidateBakeMissing
    \/ ValidateRan
    \/ RouteSplit

SpecSplit == InitSplit /\ [][NextSplit]_vars

RECURSIVE CombinedLoop(_, _, _)
\* the loop of create_and_validate_dockerfile_node fed with the validator
\* outcomes, every other step succeeding: the validator invocations it
\* makes, the flag and the count it returns, and whether it has returned
\* when the outcomes are used up
CombinedLoop(count, maxr, outcomes) ==
    IF ~LoopCondition(count, maxr)
    THEN [calls |-> 0, passed |-> Some(FALSE), retry_count |-> Some(count),
          returned |-> TRUE]
    ELSE IF outcomes = <<>>
    THEN [calls |-> 0, passed |-> None, retry_count |-> Some(count),
          returned |-> FALSE]
    ELSE IF Head(outcomes).kind = "completed" /\ Head(outcomes).returncode = 0
    THEN [calls |-> 1, passed |-> Some(TRUE), retry_count |-> Some(count),
          returned |-> TRUE]
    ELSE IF Exhausted(count + 1, maxr)
    THEN [calls |-> 1, passed |-> Some(FALSE), retry_count |-> Some(count + 1),
          returned |-> TRUE]
    ELSE LET rest == CombinedLoop(count + 1, maxr, Tail(outcomes))
         IN  [rest EXCEPT !.calls = @ + 1]

(***************************************************************************)
(* Properties                                                              *)
(***************************************************************************)
passed == state.dockerfile_validation_passed
reported_count == state.dockerfile_validation_retry_count
OriginalPath == Val(state.dockerfile_path)

\* return statements that are not an outcome of the retry decision
FatalOutcomes == {"noop", "precondition", "fatal", "spec_missing", "no_argo_path"}

\* C1: with a budget max_retries >= 0 and a validator that failed on every
\* call, an execution that ended without a fatal error has invoked the
\* validator exactly max_retries + 1 times and ended by retry exhaustion
\* with passed = false.
C1_AlwaysFailingMakesBudgetPlusOneCalls ==
    ( /\ pc = "done"
      /\ attempts > 0
      /\ max_retries >= 0
      /\ outcome \notin FatalOutcomes
      /\ validator_fails = validator_calls )
    => ( /\ validator_calls = max_retries + 1
         /\ outcome = "exhausted"
         /\ passed = Some(FALSE) )

C1_Witness ==
    /\ pc = "done"
    /\ outcome = "exhausted"
    /\ max_retries = 2
    /\ validator_calls = 3
    /\ validator_fails = 3

\* C2 (as stated): when the loop ends by retry exhaustion the reported
\* attempt count equals max_retries.
C2_ExhaustedCountEqualsBudget ==
    outcome = "exhausted" => reported_count = Some(max_retries)

\* C2 (amended): when the loop ends by retry exhaustion the reported attempt
\* count equals max_retries + 1.
C2_ExhaustedCountIsBudgetPlusOne ==
    outcome = "exhausted" => reported_count = Some(max_retries + 1)

C2_Witness ==
    /\ outcome = "exhausted"
    /\ max_retries = 2
    /\ reported_count = Some(3)

\* C3: an execution whose validator failed k times and then passed has made
\* exactly k + 1 validator calls with k <= max_retries, ended in Passed with
\* passed = true, and reports the attempt count k.
C3_FailsThenPass ==
    outcome = "passed" =>
        /\ pc = "done"
        /\ passed = Some(TRUE)
        /\ validator_calls = validator_fails + 1
        /\ validator_fails <= max_retries
        /\ reported_count = Some(validator_fails)

C3_Witness ==
    /\ outcome = "passed"
    /\ validator_fails = 1
    /\ validator_calls = 2
    /\ reported_count = Some(1)

\* the first iteration has read an original that already has the target shape
FirstAttemptHasShape ==
    /\ att.index = 1
    /\ att.read # None
    /\ dockerfile_content # None
    /\ is_multi_stage_dockerfile(Val(dockerfile_content))

\* C4: when the original read on attempt 0 already has the target shape, the
\* transformer is not invoked in that attempt and the bytes written to the
\* derived-variant path are the bytes of the original.
C4_PassThroughCopiesVerbatim ==
    FirstAttemptHasShape =>
        /\ ~att.transformed
        /\ transformer_calls = 0
        /\ att.wrote # None =>
            /\ att.wrote = state.dockerfile_argo_path
            /\ files[Val(state.dockerfile_argo_path)] = files0[OriginalPath]

\* C5: the verbatim copy is made at most once and only in the first
\* iteration; every later iteration that gets past its read invokes the
\* transformer, also when the content it read has the target shape.
C5_PassThroughOnlyOnFirstAttempt ==
    /\ passthroughs <= 1
    /\ att.copied => att.index = 1
    /\ (att.index > 1 /\ pc \in {"persist", "resolve", "validate", "loop"}) =>
            att.transformed
    /\ (att.index > 1 /\ att.wrote # None) =>
            (att.transformed /\ att.wrote_text = att.returned)

C5_Witness ==
    /\ att.index = 2
    /\ passthroughs = 1
    /\ is_multi_stage_dockerfile(Val(dockerfile_content))
    /\ att.transformed
    /\ pc = "persist"

\* C6: when the bake file is found missing, in the first or in a later
\* iteration, the node has returned with passed = false, the validator has
\* not been invoked in that iteration and no further iteration starts.
C6_MissingSpecIsFatal ==
    att.spec_found = Some(FALSE) =>
        /\ pc = "done"
        /\ outcome = "spec_missing"
        /\ passed = Some(FALSE)
        /\ ~att.validated
        /\ validator_calls = att.index - 1
        /\ attempts = att.index

C6_Witness ==
    /\ att.spec_found = Some(FALSE)
    /\ att.index = 2
    /\ retry_count < max_retries

\* C7: every iteration after the first reads the derived variant and writes
\* the derived variant; the original is not read again after attempt 0,
\* whatever the diagnostic of the failed validation.
C7_RetriesUseDerivedVariant ==
    (att.index > 1 /\ att.read # None) =>
        /\ Val(att.read) # OriginalPath
        /\ att.wrote # None => att.wrote = att.read

\* C8: without a fatal error the node has stopped only with passed = true or
\* with the attempt counter above max_retries; in the loop passed is not
\* true and the counter is within the budget, and at the loop head a counter
\* within the budget starts another iteration.
C8_StopsExactlyOnPassOrExhaustion ==
    /\ (pc = "done" /\ outcome \notin FatalOutcomes) =>
            (passed = Some(TRUE) \/ retry_count > max_retries)
    /\ pc \in {"read", "check", "persist", "resolve", "validate"} =>
            (passed # Some(TRUE) /\ retry_count <= max_retries)
    /\ (pc = "loop" /\ retry_count <= max_retries) =>
            (ENABLED LoopEnter /\ ~ENABLED LoopExit)
    /\ (pc = "loop" /\ validator_calls > 0) => retry_count <= max_retries

C8_Witness ==
    /\ pc = "loop"
    /\ validator_fails = 2
    /\ retry_count = max_retries
    /\ passed # Some(TRUE)

\* a validator invocation that fails
FailingValidation == pc = "validate" /\ validator_fails' = validator_fails + 1

\* C9 (as stated): a failed validation increments the counter, loops back
\* only if the incremented value is below max_retries, and ends in
\* exhaustion once the incremented value has reached max_retries.
C9_LoopsBackBelowBudget ==
    [][FailingValidation =>
        /\ retry_count' = retry_count + 1
        /\ pc' = "loop" => retry_count' < max_retries
        /\ retry_count' >= max_retries => outcome' = "exhausted"]_vars

\* C9 (amended): a failed validation increments the counter, loops back
\* exactly when the incremented value is at most max_retries, and ends in
\* exhaustion exactly when the incremented value exceeds max_retries.
C9_LoopsBackWithinBudget ==
    [][FailingValidation =>
        /\ retry_count' = retry_count + 1
        /\ reported_count' = Some(retry_count')
        /\ pc' = "loop" <=> retry_count' <= max_retries
        /\ (pc' = "done" /\ outcome' = "exhausted") <=> retry_count' > max_retries]_vars

C9_Witness ==
    /\ pc = "loop"
    /\ att.validated
    /\ retry_count = max_retries
    /\ reported_count = Some(max_retries)

\* C10: when the transformer raises, the node has returned with the error
\* recorded and passed = false; nothing was written and the validator was
\* not invoked in that iteration, and no further iteration starts.
C10_TransformErrorIsFatal ==
    att.transform_raised =>
        /\ pc = "done"
        /\ outcome = "fatal"
        /\ state.error # None
        /\ passed = Some(FALSE)
        /\ att.wrote = None
        /\ ~att.validated
        /\ attempts = att.index
        /\ transformer_calls <= att.index

C10_Witness ==
    /\ att.transform_raised
    /\ att.index = 2
    /\ retry_count < max_retries
    /\ pc = "done"

\* the diagnostic text the validator's outcome stands for
DiagnosticOf(r) ==
    CASE r.kind = "completed" -> IF r.stderr # "" THEN r.stderr ELSE r.stdout
      [] r.kind = "TimeoutExpired" -> TimeoutMessage
      [] r.kind = "FileNotFoundError" -> NotFoundMessage
      [] OTHER -> UnexpectedMessage

\* C11: the transformer is called without a prior error in the first
\* iteration, and in every later iteration with the diagnostic text of the
\* validation that failed just before it.
C11_PriorErrorIsLastDiagnostic ==
    (att.transformed /\ ~att.validated) =>
        IF att.index = 1
        THEN att.prior_error = None
        ELSE /\ run_result # None
             /\ att.prior_error = Some(DiagnosticOf(Val(run_result)))

C11_Witness ==
    /\ att.index = 3
    /\ att.transformed
    /\ ~att.validated
    /\ att.prior_error = Some("O")
    /\ pc = "persist"

updated == state.dockerfile_updated

\* nothing was read, transformed, written or validated
NothingDone ==
    /\ files = files0
    /\ attempts = 0
    /\ att = NewAttempt(0)
    /\ validator_calls = 0
    /\ transformer_calls = 0
    /\ passthroughs = 0
    /\ run_result = None

\* C12: with build_platform absent or empty the node is a no-op: it returns
\* with updated = false and passed = false, leaves the error field as it
\* was, and reads, writes, transforms and validates nothing.
C12_NoPlatformIsNoOp ==
    (pc # "start" /\ ~Truthy(state0.build_platform)) =>
        /\ pc = "done"
        /\ outcome = "noop"
        /\ updated = Some(FALSE)
        /\ passed = Some(FALSE)
        /\ state.error = state0.error
        /\ NothingDone

C12_Witness ==
    /\ pc = "done"
    /\ state0.build_platform = Some("")
    /\ state0.error # None
    /\ state.error = state0.error
    /\ updated = Some(FALSE)

\* C13: with build_platform present and clone_path or dockerfile_path
\* missing the loop never starts: an error is recorded, updated = false and
\* passed = false are reported, and nothing is read, transformed, written
\* or validated, whatever the budget.
C13_MissingInputsAreFatal ==
    ( /\ pc # "start"
      /\ Truthy(state0.build_platform)
      /\ (~Truthy(state0.clone_path) \/ ~PathSet(state0.dockerfile_path)) ) =>
        /\ pc = "done"
        /\ outcome = "precondition"
        /\ state.error \in {Some("No clone path available for Dockerfile update"),
                            Some("No Dockerfile path found")}
        /\ updated = Some(FALSE)
        /\ passed = Some(FALSE)
        /\ NothingDone

C13_Witness ==
    /\ pc = "done"
    /\ Truthy(state0.build_platform)
    /\ Truthy(state0.clone_path)
    /\ ~PathSet(state0.dockerfile_path)
    /\ max_retries = 2
    /\ state.error = Some("No Dockerfile path found")

reported_error == state.dockerfile_validation_error

\* a validator invocation that times out or finds no executable
TimeoutOrNotFound ==
    /\ pc = "validate"
    /\ validator_calls' = validator_calls + 1
    /\ run_result' # None
    /\ Val(run_result').kind \in {"TimeoutExpired", "FileNotFoundError"}

C16_ExhaustionKeepsLastDiagnostic ==
    outcome = "exhausted" =>
        /\ passed = Some(FALSE)
        /\ run_result # None
        /\ reported_error = Some(DiagnosticOf(Val(run_result)))
        /\ state.error = state0.error

C16_Witness ==
    /\ outcome = "exhausted"
    /\ validator_fails = 3
    /\ run_result = Some(Raised("FileNotFoundError"))
    /\ reported_error = Some(NotFoundMessage)
    /\ state.error = None

\* the bake file the inputs call for: the explicit one, else the
\* conventional name next to the derived variant
ExpectedBakeFile ==
    IF state0.docker_bake_file_path # None
    THEN Val(state0.docker_bake_file_path)
    ELSE [parent |-> Val(state.dockerfile_argo_path).parent,
          name |-> <<"docker-argo-bake", Dot, "hcl">>]

\* C17: in every iteration exactly one bake-file location is tested for
\* existence and used: the explicit path when one is supplied, otherwise
\* the conventional file name in the directory of the derived variant.
C17_SpecResolutionOrder ==
    att.spec_found # None =>
        /\ att.spec_checked = {ExpectedBakeFile}
        /\ bake_file_path = Some(ExpectedBakeFile)

C17_Witness ==
    /\ att.spec_found = Some(TRUE)
    /\ state0.docker_bake_file_path = Some(ExplicitBakeFile)
    /\ att.spec_checked = {ExplicitBakeFile}
    /\ att.index = 2

RECURSIVE LeadingToken(_)
\* the characters of a stripped line up to its first white space
LeadingToken(s) ==
    IF s = <<>> \/ IsSpace(Head(s)) THEN <<>>
    ELSE <<Head(s)>> \o LeadingToken(Tail(s))

\* a stage-declaration line: not blank, not a comment, and its leading
\* token is the keyword in any letter case
IsStageDeclaration(line) ==
    LET stripped == Strip(line)
    IN  /\ stripped # <<>>
        /\ Head(stripped) # "#"
        /\ Upper(LeadingToken(stripped)) = KeywordFROM

RECURSIVE StageDeclarations(_)
StageDeclarations(lines) ==
    IF lines = <<>> THEN 0
    ELSE (IF IsStageDeclaration(Head(lines)) THEN 1 ELSE 0)
         + StageDeclarations(Tail(lines))

\* C18: is_multi_stage_dockerfile returns false for a text with at most one
\* stage-declaration line and true for a text with two or more, blank and
\* comment lines not counting and the keyword in any letter case.
C18_MultiStageIffTwoDeclarations ==
    pc = "shape_done" =>
        Val(fn.output) = (StageDeclarations(fn.input) > 1)

\* C19: the lines is_multi_stage_dockerfile counts are those whose leading
\* token equals the keyword; a line whose first token only begins with the
\* keyword's letters is not counted.
C19_CountsOnlyKeywordTokens ==
    pc = "shape_done" =>
        /\ Val(fn.from_count) = StageDeclarations(fn.input)
        /\ \A i \in 1..Len(fn.input) :
            (fn.input[i] = LFromage) =>
                Val(fn.from_count) = from_count(SubSeq(fn.input, 1, i - 1))
                                     + from_count(SubSeq(fn.input, i + 1, Len(fn.input)))

\* C20: the derived variant written in the first iteration is the original
\* file name with the marker inserted before its extension (appended when
\* there is none), in the same directory, on the transform path as on the
\* pass-through path.
C20_DerivedPathInsertsMarker ==
    (att.index = 1 /\ att.wrote # None) =>
        /\ att.wrote = Some(Path(OriginalPath.parent, ArgoName(OriginalPath.name)))
        /\ state.dockerfile_argo_path = att.wrote

\* C21: the node never writes to the path of the original: while it runs and
\* after it has returned, the file at dockerfile_path holds the bytes it held
\* when the node was entered, whatever the original's file name.
C21_OriginalNeverWritten ==
    PathSet(state.dockerfile_path) =>
        files[OriginalPath] = files0[OriginalPath]

\* the validator invocation made by this step did not exit with code 0
ValidationFails ==
    /\ pc = "validate"
    /\ validator_calls' = validator_calls + 1
    /\ ~(Val(run_result').kind = "completed" /\ Val(run_result').returncode = 0)

\* C22: within one execution the attempt counter is 0 when the loop is
\* entered, never decreases, grows by exactly one in every step that is a
\* failed validation (non-zero exit, timeout, missing executable, other
\* exception of the subprocess call) and changes in no other step: a passed
\* validation, a fatal error and a missing bake file leave it as it was.
C22_CounterCountsFailedValidations ==
    [][ /\ (pc = "start" /\ pc' = "loop") => retry_count' = 0
        /\ pc # "start" =>
            /\ retry_count' >= retry_count
            /\ ValidationFails => retry_count' = retry_count + 1
            /\ ~ValidationFails => retry_count' = retry_count
            /\ retry_count' = validator_fails' ]_vars

C22_Witness ==
    /\ pc = "done"
    /\ outcome = "spec_missing"
    /\ retry_count = 2
    /\ validator_fails = 2
    /\ run_result = Some(Raised("FileNotFoundError"))

\* C23: a read that finds no file ends the node, and so does a read that
\* raises: the node has returned with an error recorded, updated = false
\* and passed = false, and the step has invoked neither the transformer nor
\* the validator and has written nothing.
C23_UnreadableContentIsFatal ==
    [][ /\ (pc = "read" /\ read_dockerfile(ReadTarget) = None) => pc' = "done"
        /\ (pc = "read" /\ pc' # "check") =>
            /\ pc' = "done"
            /\ outcome' = "fatal"
            /\ state'.error \in {Some("Dockerfile not found"),
                                 Some("Failed to read Dockerfile")}
            /\ updated' = Some(FALSE)
            /\ passed' = Some(FALSE)
            /\ ~att'.transformed /\ ~att'.copied /\ ~att'.validated
            /\ att'.wrote = None
            /\ counters' = counters
            /\ files' = files ]_vars

C23_Witness ==
    /\ pc = "done"
    /\ outcome = "fatal"
    /\ att.index = 1
    /\ files0[OriginalPath] = None
    /\ state.error = Some("Dockerfile not found")
    /\ max_retries = 2

\* C24: in every iteration the steps run in the order read, copy or
\* transform, write, validate: when the validator is about to be invoked or
\* has been invoked, the iteration has read its input, has either copied or
\* transformed it (never both), and has written the result to the path the
\* state reports as dockerfile_argo_path, where it still is; on the
\* transform path the text written is the text the transformer returned in
\* that iteration. The validator runs at most once per iteration.
C24_StepsRunInOrder ==
    /\ ~(att.copied /\ att.transformed)
    /\ (att.copied \/ att.transformed) => att.read # None
    /\ att.wrote # None =>
        /\ att.copied \/ (att.transformed /\ att.returned # None)
        /\ att.transformed => att.wrote_text = att.returned
    /\ (pc = "validate" \/ att.validated) =>
        /\ att.read # None
        /\ att.wrote # None
        /\ att.wrote = state.dockerfile_argo_path
        /\ files[Val(att.wrote)] = Some(write_text(Val(att.wrote_text)))
    /\ attempts > 0 =>
        validator_calls = (attempts - 1) + (IF att.validated THEN 1 ELSE 0)

C24_Witness ==
    /\ att.index = 2
    /\ att.validated
    /\ att.transformed
    /\ att.returned = Some(MultiStageFixed)
    /\ dockerfile_content # att.returned
    /\ files[Val(state.dockerfile_argo_path)] = Some(write_text(MultiStageFixed))
    /\ outcome = "passed"

RECURSIVE Occurrences(_, _)
\* how many times the node named n appears in a sequence of node names
Occurrences(trace, n) ==
    IF trace = <<>> THEN 0
    ELSE (IF Head(trace) = n THEN 1 ELSE 0) + Occurrences(Tail(trace), n)

\* C25: the nodes that have run are an initial part of the order
\* validate_url, clone_repository, analyze_repository, copy_dependencies,
\* create_and_validate_dockerfile; clone_repository has run only if
\* validate_url left status = "validated"; the transform-and-validate node
\* has run at most once and only if build_platform was non-empty after
\* copy_dependencies; and once it has run the workflow is at its end.
C25_WorkflowRunsNodesInOrder ==
    LET w == Val(wf)
        n == Len(w.trace)
    IN  /\ n <= Len(WorkflowOrder)
        /\ w.trace = SubSeq(WorkflowOrder, 1, n)
        /\ n >= 2 => w.status_after_validate = Some("validated")
        /\ Occurrences(w.trace, "create_and_validate_dockerfile") <= 1
        /\ n = 5 =>
            /\ w.platform_after_deps # None
            /\ Truthy(Val(w.platform_after_deps))
            /\ w.at = "END"
            /\ pc = "done"
        /\ w.at \in {"END", "aborted"} => ~ENABLED NextWorkflow
        /\ (n = 4 /\ Truthy(Val(w.platform_after_deps))) =>
                w.at = "create_and_validate_dockerfile"

C25_Witness ==
    /\ wf # None
    /\ Val(wf).trace = WorkflowOrder
    /\ Val(wf).at = "END"
    /\ Val(wf).status = "success"
    /\ outcome = "passed"

C27_TerminatesWithinBudget ==
    /\ <>(pc = "done")
    /\ [](pc # "start" =>
            /\ validator_calls <= max_retries + 1
            /\ transformer_calls <= max_retries + 1
            /\ attempts <= max_retries + 1)

C27_Witness ==
    /\ pc = "done"
    /\ max_retries = 2
    /\ validator_calls = 3
    /\ transformer_calls = 3
    /\ outcome = "passed"

\* C28: dockerfile_argo_path is set by the write of the first iteration and
\* no later step of the execution changes its value, whatever the
\* original's file name, the branch the first iteration took and the
\* diagnostic of a failed validation.
C28_DerivedPathIsStable ==
    [][ /\ (att.index = 1 /\ pc \in {"check", "persist"} /\ pc' = "resolve") =>
                PathSet(state'.dockerfile_argo_path)
        /\ PathSet(state.dockerfile_argo_path) =>
                state'.dockerfile_argo_path = state.dockerfile_argo_path ]_vars

\* C29: a missing bake file is found only after the iteration has produced
\* and written its content: the -argo file has been written in that
\* iteration (on the transform path after one transformer call), the
\* attempt counter is what it was when the iteration started, updated is
\* true, the error field is as it was when the node was entered, and the
\* diagnostic field holds the not-found message.
C29_MissingSpecFoundAfterPersist ==
    att.spec_found = Some(FALSE) =>
        /\ att.wrote # None
        /\ att.wrote = state.dockerfile_argo_path
        /\ files[Val(att.wrote)] = Some(write_text(Val(att.wrote_text)))
        /\ att.copied \/ att.transformed
        /\ att.transformed =>
            (att.returned = att.wrote_text /\ transformer_calls <= att.index)
        /\ att.copied => transformer_calls = 0
        /\ ~att.validated
        /\ retry_count = att.index - 1
        /\ reported_count = Some(att.index - 1)
        /\ validator_fails = att.index - 1
        /\ updated = Some(TRUE)
        /\ state.error = state0.error
        /\ reported_error = Some(BakeMissingMessage)

C29_Witness ==
    /\ att.spec_found = Some(FALSE)
    /\ att.index = 1
    /\ att.transformed
    /\ transformer_calls = 1
    /\ updated = Some(TRUE)
    /\ state.error = None
    /\ retry_count = 0

\* C30: passed is true only when the node has returned right after a
\* validator invocation that exited with code 0, which is then the last
\* invocation of the execution; an execution that has returned without
\* invoking the validator reports passed = false; and once passed is true
\* no further iteration starts.
C30_PassedOnlyAfterExitZero ==
    /\ passed = Some(TRUE) =>
        /\ pc = "done"
        /\ outcome = "passed"
        /\ validator_calls >= 1
        /\ att.validated
        /\ run_result # None
        /\ Val(run_result).kind = "completed"
        /\ Val(run_result).returncode = 0
        /\ attempts = att.index
        /\ ~ENABLED LoopEnter
    /\ (pc = "done" /\ validator_calls = 0) => passed = Some(FALSE)
    /\ (pc = "done" /\ outcome = "fallthrough") => passed = Some(FALSE)

C30_Witness ==
    /\ passed = Some(TRUE)
    /\ pc = "done"
    /\ validator_calls = 3
    /\ validator_fails = 2
    /\ run_result = Some(Completed(0, "E", ""))

\* some step of the execution has written a -argo file
DerivedVariantWritten == \E p \in AllPaths : files[p] # files0[p]

\* C31: when the node has returned with updated = false no -argo file has
\* been written during the execution: once an iteration has written one,
\* the updated flag at the return is true.
C31_NotUpdatedMeansNothingWritten ==
    (pc = "done" /\ updated = Some(FALSE)) =>
        /\ ~DerivedVariantWritten
        /\ att.wrote = None

\* a validator invocation that raises an exception other than a timeout
\* or a missing executable
OtherException ==
    /\ pc = "validate"
    /\ validator_calls' = validator_calls + 1
    /\ run_result' # None
    /\ Val(run_result').kind = "Exception"

\* C32: any other exception of the validator invocation is a failed
\* validation and not a fatal error: the attempt counter grows by one, the
\* diagnostic becomes the unexpected-error message, the error field is left
\* alone, and the loop goes on while the counter is at most max_retries and
\* ends by exhaustion beyond it.
C32_OtherExceptionIsRetryable ==
    [][OtherException =>
        /\ validator_fails' = validator_fails + 1
        /\ retry_count' = retry_count + 1
        /\ reported_count' = Some(retry_count')
        /\ validation_error' = Some(UnexpectedMessage)
        /\ reported_error' = Some(UnexpectedMessage)
        /\ state.error' = state.error
        /\ passed' # Some(TRUE)
        /\ outcome' # "fatal"
        /\ retry_count' <= max_retries => pc' = "loop"
        /\ retry_count' > max_retries =>
            (pc' = "done" /\ outcome' = "exhausted" /\ passed' = Some(FALSE))]_vars

C32_Witness ==
    /\ pc = "loop"
    /\ run_result = Some(Raised("Exception"))
    /\ retry_count = 2
    /\ retry_count = max_retries
    /\ validation_error = Some(UnexpectedMessage)

\* the split loop has ended and every one of its node runs went through:
\* the preconditions held, each update wrote or reported a derived variant
\* and each validation invoked the validator
SplitRanClean ==
    /\ pc = "end"
    /\ outcome = "running"
    /\ validator_calls > 0

\* what the combined node does with the same limit and the same outcomes
CombinedOnSameOutcomes ==
    CombinedLoop(0, Val(WithDefaults(state0).dockerfile_validation_max_retries),
                 Val(fn).outcomes)

\* C33: when the split loop has ended, the combined node given the same
\* max_retries and the same validator outcomes has made the same number of
\* validator invocations and returned the same passed flag and retry count.
C33_SplitLoopMatchesCombined ==
    SplitRanClean =>
        /\ CombinedOnSameOutcomes.returned
        /\ CombinedOnSameOutcomes.calls = validator_calls
        /\ CombinedOnSameOutcomes.passed = state.dockerfile_validation_passed
        /\ CombinedOnSameOutcomes.retry_count = state.dockerfile_validation_retry_count

\* copy_dependencies_node: the path rendered into the CI templates, taken
\* from dockerfile_argo_path when set and built from dockerfile_path otherwise
dockerfile_path_for_template(s) ==
    IF PathSet(s.dockerfile_argo_path)
    THEN Val(s.dockerfile_argo_path)
    ELSE LET dockerfile_path_obj == Val(s.dockerfile_path)
             dockerfile_argo_name ==
                 IF PathSuffix(dockerfile_path_obj.name) # <<>>
                 THEN PathStem(dockerfile_path_obj.name) \o <<ArgoMarker>>
                          \o PathSuffix(dockerfile_path_obj.name)
                 ELSE dockerfile_path_obj.name \o <<ArgoMarker>>
         IN  Path(dockerfile_path_obj.parent, dockerfile_argo_name)

\* C34: the path copy_dependencies_node rendered into the CI templates from
\* the state it was given is the path the first attempt of the node writes
\* and reports, on the pass-through path and on the transform path.
C34_TemplatePathIsWrittenPath ==
    (att.index = 1 /\ att.wrote # None /\ (att.copied \/ att.transformed)) =>
        /\ att.wrote = Some(dockerfile_path_for_template(state0))
        /\ state.dockerfile_argo_path = Some(dockerfile_path_for_template(state0))

\* the node was entered with everything it needs and a limit of at least 0
ValidEntry ==
    /\ Truthy(state0.build_platform)
    /\ Truthy(state0.clone_path)
    /\ PathSet(state0.dockerfile_path)
    /\ Val(WithDefaults(state0).dockerfile_validation_max_retries) >= 0

\* C35: the retry counter is 0 when the first attempt of an execution
\* starts, and an execution entered with valid preconditions and a limit
\* of at least 0 has made at least one attempt when it returns, whatever
\* retry count the incoming state carries.
C35_CounterStartsAtZero ==
    /\ (att.index = 1 /\ pc = "read") => retry_count = 0
    /\ (pc = "done" /\ ValidEntry) => attempts >= 1

====
